---- MODULE Spec2Model ----
(***************************************************************************)
(* Model of the Countdown widget (src/src/Countdown.jsx).                  *)
(*                                                                         *)
(* The widget is a React function component: every render captures the     *)
(* committed countdownState in the closures tick and togglePaused; the     *)
(* click handler always belongs to the latest committed render, the        *)
(* interval timer belongs to the render whose effect ran last.  State      *)
(* updates issued by a timer callback are queued and rendered later;       *)
(* updates issued by a click are rendered before the click returns.        *)
(* The effect (clearInterval + setInterval) of a commit runs after the     *)
(* commit, at the latest before the next render starts.                    *)
(*                                                                         *)
(* Time is in milliseconds.  React's own work is not delayed by a whole    *)
(* clock step, and a due timer fires before the clock moves on; tasks      *)
(* that are ready at the same instant run in any order.                    *)
(***************************************************************************)
EXTENDS Integers, Sequences, FiniteSets, TLC

VARIABLES
    now,              \* Date.now()
    endTimestamp,     \* prop endTimestamp
    onTimedOut,       \* prop onTimedOut: TRUE iff a callback was supplied
    mounted,          \* the widget is in the page
    countdownState,   \* committed value of the countdownState hook
    remainingSeconds, \* committed value of the remainingSeconds hook
    stateQueue,       \* queued setCountdownState updates, oldest first
    secondsQueue,     \* queued setRemainingSeconds updates, oldest first
    effectPending,    \* a commit whose effect has not run yet
    timerLive,        \* an interval timer is registered
    timerState,       \* countdownState captured by the live timer's tick
    timerDue,         \* instant at which the live timer fires next
    delta,            \* delta computed by the latest render
    display,          \* string shown in countdown-timer
    timedOutCalls,    \* number of onTimedOut() invocations so far
    ticks,            \* number of tick() runs so far
    toggled,          \* the button has been clicked at least once
    lastTick,         \* instant of the latest tick (of mount before the first)
    lastOp,           \* the operation that ran last
    liveTimers,       \* number of intervals registered and not cleared
    renderedAt        \* Date.now() read by the latest render

vars == <<now, endTimestamp, onTimedOut, mounted, countdownState,
          remainingSeconds, stateQueue, secondsQueue, effectPending,
          timerLive, timerState, timerDue, delta, display, timedOutCalls,
          ticks, toggled, lastTick, lastOp, liveTimers, renderedAt>>

----------------------------------------------------------------------------
(* Bounds *)

\* number of clock steps the widget is observed for
MaxClock == 8
\* latest target, in clock steps after mount
MaxTarget == 5
\* largest hours value of the deltas and instants handed to the pure functions
MaxHours == 11

----------------------------------------------------------------------------
(* Program constants *)

RUNNING == "RUNNING"
PAUSED == "PAUSED"
TIMEDOUT == "TIMEDOUT"
CountdownState == {RUNNING, PAUSED, TIMEDOUT}

\* period handed to setInterval
Interval == 1000

\* granularity of the modelled clock: two steps per timer period
ClockStep == Interval \div 2

\* instant of mount
MountTime == 0 * ClockStep

----------------------------------------------------------------------------
(* Pure functions *)

Abs(n) == IF n < 0 THEN 0 - n ELSE n

\* Math.floor(a / b) for b > 0
Floor(a, b) == a \div b

Digit(d) ==
    CASE d = 0 -> "0" [] d = 1 -> "1" [] d = 2 -> "2" [] d = 3 -> "3"
      [] d = 4 -> "4" [] d = 5 -> "5" [] d = 6 -> "6" [] d = 7 -> "7"
      [] d = 8 -> "8" [] d = 9 -> "9"

\* conversion of a non-negative integer to its decimal string ('' + n)
RECURSIVE NumToString(_)
NumToString(n) ==
    IF n < 10 THEN Digit(n)
    ELSE NumToString(n \div 10) \o Digit(n % 10)

calculateRemainingSecondsNoSentinel(end) ==
    LET diff == end - now
    IN  IF diff > 0 THEN Floor(diff, 1000) ELSE 0

calculateRemainingSeconds(end) ==
    LET diff == end - now
    IN  IF diff > 0 THEN Floor(diff, 1000) ELSE -1

calculateTimeDifferenceNoPastCheck(startTimestamp, end) ==
    LET deltaInMillis == Abs(startTimestamp - end)
        seconds0 == Floor(deltaInMillis, 1000)
        hours == Floor(seconds0, 3600)
        seconds1 == seconds0 - hours * 3600
        minutes == Floor(seconds1, 60)
        seconds2 == seconds1 - minutes * 60
    IN  [hours |-> hours, minutes |-> minutes, seconds |-> seconds2]

calculateTimeDifferenceMinutesOfTotal(startTimestamp, end) ==
    IF startTimestamp > end
    THEN [hours |-> 0, minutes |-> 0, seconds |-> 0]
    ELSE LET deltaInMillis == Abs(startTimestamp - end)
             seconds0 == Floor(deltaInMillis, 1000)
             hours == Floor(seconds0, 3600)
             minutes == Floor(seconds0, 60)
             seconds2 == seconds0 - minutes * 60
         IN  [hours |-> hours, minutes |-> minutes, seconds |-> seconds2]

calculateTimeDifferenceOfStoredSeconds(startTimestamp, end) ==
    LET seconds0 == IF remainingSeconds < 0 THEN 0 ELSE remainingSeconds
        hours == Floor(seconds0, 3600)
        seconds1 == seconds0 - hours * 3600
        minutes == Floor(seconds1, 60)
        seconds2 == seconds1 - minutes * 60
    IN  [hours |-> hours, minutes |-> minutes, seconds |-> seconds2]

calculateTimeDifference(startTimestamp, end) ==
    IF startTimestamp > end
    THEN [hours |-> 0, minutes |-> 0, seconds |-> 0]
    ELSE LET deltaInMillis == Abs(startTimestamp - end)
             seconds0 == Floor(deltaInMillis, 1000)
             hours == Floor(seconds0, 3600)
             seconds1 == seconds0 - hours * 3600
             minutes == Floor(seconds1, 60)
             seconds2 == seconds1 - minutes * 60
         IN  [hours |-> hours, minutes |-> minutes, seconds |-> seconds2]

formatDeltaTimeAsStringPadBelowNine(d) ==
    LET hoursString == IF d.hours < 9 THEN "0" \o NumToString(d.hours)
                       ELSE NumToString(d.hours)
        minutesString == IF d.minutes < 9 THEN "0" \o NumToString(d.minutes)
                         ELSE NumToString(d.minutes)
        secondsString == IF d.seconds < 9 THEN "0" \o NumToString(d.seconds)
                         ELSE NumToString(d.seconds)
    IN  IF d.hours > 0
        THEN hoursString \o ":" \o minutesString \o ":" \o secondsString
        ELSE minutesString \o ":" \o secondsString

formatDeltaTimeAsString(d) ==
    LET hoursString == IF d.hours < 10 THEN "0" \o NumToString(d.hours)
                       ELSE NumToString(d.hours)
        minutesString == IF d.minutes < 10 THEN "0" \o NumToString(d.minutes)
                         ELSE NumToString(d.minutes)
        secondsString == IF d.seconds < 10 THEN "0" \o NumToString(d.seconds)
                         ELSE NumToString(d.seconds)
    IN  IF d.hours > 0
        THEN hoursString \o ":" \o minutesString \o ":" \o secondsString
        ELSE minutesString \o ":" \o secondsString

----------------------------------------------------------------------------
(* Helpers of the component *)

\* tick's test "remainder < 0"
timedOutNever(remainder) == remainder < -1

timedOutAtZero(remainder) == remainder <= 0

timedOut(remainder) == remainder < 0

\* the value togglePaused hands to setCountdownState; the state itself when
\* it makes no call
toggledStateNoGuard(cs) == IF cs = PAUSED THEN RUNNING ELSE PAUSED

toggledStateStuck(cs) == IF cs = RUNNING THEN PAUSED ELSE cs

toggledState(cs) ==
    IF cs = PAUSED THEN RUNNING
    ELSE IF cs = RUNNING THEN PAUSED
    ELSE cs

\* clearInterval(timer) of the effect's cleanup, on the number of live timers
clearIntervalLeak(n) == n

clearInterval(n) == n - 1

\* one run of the effect: the cleanup of the previous run, if there was
\* one, then setInterval
RunEffect(n, hadTimer) == (IF hadTimer THEN clearInterval(n) ELSE n) + 1

\* value a hook will have once its queued updates are rendered
Latest(queue, committed) ==
    IF queue = << >> THEN committed ELSE queue[Len(queue)]

\* a state setter called with value v: the update is dropped when nothing
\* is queued for the component and v is the committed value
SetState(queue, committed, idle, v) ==
    IF idle /\ v = committed THEN queue ELSE Append(queue, v)

Idle == stateQueue = << >> /\ secondsQueue = << >>

----------------------------------------------------------------------------
(* The mounted widget *)

ZeroDelta == [hours |-> 0, minutes |-> 0, seconds |-> 0]

\* targets handed to the widget: from one clock step before mount onwards
Targets == {MountTime + t * ClockStep : t \in -1..MaxTarget}

\* first render: useState initial values, delta and string of the output
Init ==
    /\ now = MountTime
    /\ endTimestamp \in Targets
    /\ onTimedOut \in BOOLEAN
    /\ mounted = TRUE
    /\ countdownState = RUNNING
    /\ remainingSeconds = calculateRemainingSeconds(endTimestamp)
    /\ stateQueue = << >>
    /\ secondsQueue = << >>
    /\ effectPending = TRUE
    /\ timerLive = FALSE
    /\ timerState = RUNNING
    /\ timerDue = MountTime
    /\ delta = calculateTimeDifference(now, endTimestamp)
    /\ display = formatDeltaTimeAsString(delta)
    /\ timedOutCalls = 0
    /\ ticks = 0
    /\ toggled = FALSE
    /\ lastTick = MountTime
    /\ lastOp = "mount"
    /\ liveTimers = 0
    /\ renderedAt = now

\* the interval timer fires: tick() of the render that registered it
tick ==
    /\ timerLive
    /\ now >= timerDue
    /\ LET running == timerState = RUNNING
           remainder == calculateRemainingSeconds(endTimestamp)
           expired == running /\ timedOut(remainder)
           sq == IF running
                 THEN SetState(secondsQueue, remainingSeconds, Idle, remainder)
                 ELSE secondsQueue
           stq == IF expired
                  THEN SetState(stateQueue, countdownState,
                                stateQueue = << >> /\ sq = << >>, TIMEDOUT)
                  ELSE stateQueue
       IN  /\ secondsQueue' = sq
           /\ stateQueue' = stq
           /\ timedOutCalls' = IF expired /\ onTimedOut
                               THEN timedOutCalls + 1 ELSE timedOutCalls
    /\ timerDue' = timerDue + Interval
    /\ ticks' = ticks + 1
    /\ lastTick' = now
    /\ lastOp' = "tick"
    /\ UNCHANGED <<now, endTimestamp, onTimedOut, mounted, countdownState,
                   remainingSeconds, effectPending, timerLive, timerState,
                   delta, display, toggled, liveTimers, renderedAt>>

\* a click on the button: togglePaused() of the committed render.  When it
\* sets the state, the update is rendered before the click returns; the
\* effect of the previous commit, if still pending, runs first.
togglePaused ==
    /\ mounted
    /\ LET next == toggledState(countdownState)
       IN  IF next = countdownState
           THEN UNCHANGED <<countdownState, stateQueue, effectPending,
                            timerLive, timerState, timerDue, delta, display,
                            liveTimers, renderedAt>>
           ELSE /\ countdownState' = next
                /\ stateQueue' = << >>
                /\ timerLive' = (timerLive \/ effectPending)
                /\ liveTimers' = IF effectPending
                                 THEN RunEffect(liveTimers, timerLive)
                                 ELSE liveTimers
                /\ renderedAt' = now
                /\ timerState' = IF effectPending THEN countdownState
                                 ELSE timerState
                /\ timerDue' = IF effectPending THEN now + Interval
                               ELSE timerDue
                /\ delta' = calculateTimeDifference(now, endTimestamp)
                /\ display' = formatDeltaTimeAsString(delta')
                /\ effectPending' = TRUE
    /\ toggled' = TRUE
    /\ lastOp' = "toggle"
    /\ UNCHANGED <<now, endTimestamp, onTimedOut, mounted, remainingSeconds,
                   secondsQueue, timedOutCalls, ticks, lastTick>>

\* re-render of the component for the queued updates
Countdown ==
    /\ mounted
    /\ ~Idle
    /\ ~effectPending
    /\ LET cs == Latest(stateQueue, countdownState)
           rs == Latest(secondsQueue, remainingSeconds)
       IN  /\ countdownState' = cs
           /\ remainingSeconds' = rs
           /\ IF cs # countdownState \/ rs # remainingSeconds
              THEN /\ delta' = calculateTimeDifference(now, endTimestamp)
                   /\ display' = formatDeltaTimeAsString(delta')
                   /\ effectPending' = TRUE
                   /\ renderedAt' = now
              ELSE UNCHANGED <<delta, display, effectPending, renderedAt>>
    /\ stateQueue' = << >>
    /\ secondsQueue' = << >>
    /\ lastOp' = "render"
    /\ UNCHANGED <<now, endTimestamp, onTimedOut, mounted, timerLive,
                   timerState, timerDue, timedOutCalls, ticks, toggled,
                   lastTick, liveTimers>>

\* the effect of the latest commit: clearInterval of the previous timer,
\* setInterval of a new one that calls this render's tick
useEffect ==
    /\ mounted
    /\ effectPending
    /\ effectPending' = FALSE
    /\ timerLive' = TRUE
    /\ liveTimers' = RunEffect(liveTimers, timerLive)
    /\ timerState' = countdownState
    /\ timerDue' = now + Interval
    /\ lastOp' = "effect"
    /\ UNCHANGED <<now, endTimestamp, onTimedOut, mounted, countdownState,
                   remainingSeconds, stateQueue, secondsQueue, delta, display,
                   timedOutCalls, ticks, toggled, lastTick, renderedAt>>

\* the widget is removed: a pending effect runs, then the cleanup of the
\* last effect clears its timer
Unmount ==
    /\ mounted
    /\ mounted' = FALSE
    /\ LET registered == IF effectPending
                         THEN RunEffect(liveTimers, timerLive)
                         ELSE liveTimers
       IN  liveTimers' = IF timerLive \/ effectPending
                         THEN clearInterval(registered)
                         ELSE registered
    /\ timerLive' = (liveTimers' > 0)
    /\ effectPending' = FALSE
    /\ stateQueue' = << >>
    /\ secondsQueue' = << >>
    /\ lastOp' = "unmount"
    /\ UNCHANGED <<now, endTimestamp, onTimedOut, countdownState,
                   remainingSeconds, timerState, timerDue, delta, display,
                   timedOutCalls, ticks, toggled, lastTick, renderedAt>>

\* time passes
ClockAdvance ==
    /\ now + ClockStep <= MountTime + MaxClock * ClockStep
    /\ mounted => /\ Idle
                  /\ ~effectPending
                  /\ timerLive => now < timerDue
    /\ now' = now + ClockStep
    /\ lastOp' = "clock"
    /\ UNCHANGED <<endTimestamp, onTimedOut, mounted, countdownState,
                   remainingSeconds, stateQueue, secondsQueue, effectPending,
                   timerLive, timerState, timerDue, delta, display,
                   timedOutCalls, ticks, toggled, lastTick, liveTimers,
                   renderedAt>>

Next ==
    \/ tick
    \/ togglePaused
    \/ Countdown
    \/ useEffect
    \/ Unmount
    \/ ClockAdvance

Spec == Init /\ [][Next]_vars

TypeOK ==
    /\ countdownState \in CountdownState
    /\ timerState \in CountdownState
    /\ Len(stateQueue) <= 1
    /\ Len(secondsQueue) <= 1
    /\ timedOutCalls \in 0..ticks
    /\ timerLive <=> liveTimers > 0

----------------------------------------------------------------------------
(* The pure functions on their own: the inputs are drawn by the initial    *)
(* state, one action applies the function.                                 *)

\* instants around the second, minute and hour boundaries
Instants ==
    {h * 3600000 + m * 60000 + sec * 1000 + ms :
        h \in {0, 1, MaxHours}, m \in {0, 1, 59}, sec \in {0, 1, 59},
        ms \in {0, 1, 999}}

\* deltas handed to the formatter
Deltas ==
    [hours : (0..MaxHours) \cup {99, 100, 123}, minutes : 0..59,
     seconds : 0..59]

\* the widget's variables that the pure functions do not touch
NoWidget ==
    /\ onTimedOut = FALSE
    /\ mounted = FALSE
    /\ countdownState = RUNNING
    /\ stateQueue = << >>
    /\ secondsQueue = << >>
    /\ effectPending = FALSE
    /\ timerLive = FALSE
    /\ timerState = RUNNING
    /\ timerDue = MountTime
    /\ timedOutCalls = 0
    /\ ticks = 0
    /\ toggled = FALSE
    /\ lastTick = MountTime
    /\ liveTimers = 0
    /\ renderedAt = MountTime

InitCalc ==
    /\ now \in Instants
    /\ endTimestamp \in Instants
    /\ remainingSeconds = 0
    /\ delta = ZeroDelta
    /\ display = ""
    /\ lastOp = "init"
    /\ NoWidget

\* calculateRemainingSeconds(endTimestamp) and
\* calculateTimeDifference(Date.now(), endTimestamp) at the instant now
Calculate ==
    /\ lastOp = "init"
    /\ remainingSeconds' = calculateRemainingSeconds(endTimestamp)
    /\ delta' = calculateTimeDifference(now, endTimestamp)
    /\ lastOp' = "calculate"
    /\ UNCHANGED <<now, endTimestamp, onTimedOut, mounted, countdownState,
                   stateQueue, secondsQueue, effectPending, timerLive,
                   timerState, timerDue, display, timedOutCalls, ticks,
                   toggled, lastTick, liveTimers, renderedAt>>

SpecCalc == InitCalc /\ [][Calculate]_vars

InitFormat ==
    /\ now = MountTime
    /\ endTimestamp = MountTime
    /\ remainingSeconds = 0
    /\ delta \in Deltas
    /\ display = ""
    /\ lastOp = "init"
    /\ NoWidget

\* formatDeltaTimeAsString(delta)
Format ==
    /\ lastOp = "init"
    /\ display' = formatDeltaTimeAsString(delta)
    /\ lastOp' = "format"
    /\ UNCHANGED <<now, endTimestamp, onTimedOut, mounted, countdownState,
                   remainingSeconds, stateQueue, secondsQueue, effectPending,
                   timerLive, timerState, timerDue, delta, timedOutCalls,
                   ticks, toggled, lastTick, liveTimers, renderedAt>>

SpecFormat == InitFormat /\ [][Format]_vars

----------------------------------------------------------------------------
(* Properties *)

TotalSeconds(d) == d.hours * 3600 + d.minutes * 60 + d.seconds

\* C1: onTimedOut is invoked only inside a tick that moves the state from
\* RUNNING to TIMEDOUT, and it is never invoked more than once.
C1_CallbackExactlyOnce ==
    [][timedOutCalls' # timedOutCalls =>
          /\ lastOp' = "tick"
          /\ countdownState = RUNNING
          /\ Latest(stateQueue', countdownState') = TIMEDOUT
          /\ timedOutCalls' <= 1]_vars

\* C2: once the countdown state is TIMEDOUT, no tick, toggle or re-render
\* of the mounted widget changes it to RUNNING or PAUSED.
C2_TimedOutAbsorbing ==
    [][countdownState = TIMEDOUT => countdownState' = TIMEDOUT]_vars

\* C2 witness: the button was clicked while the state was TIMEDOUT
C2_Witness ==
    /\ mounted
    /\ countdownState = TIMEDOUT
    /\ lastOp = "toggle"

\* C3: togglePaused turns RUNNING into PAUSED and PAUSED into RUNNING, leaves
\* TIMEDOUT unchanged, never invokes the callback and never produces
\* TIMEDOUT.
C3_ToggleAlternates ==
    [][lastOp' = "toggle" =>
          /\ countdownState = RUNNING => countdownState' = PAUSED
          /\ countdownState = PAUSED => countdownState' = RUNNING
          /\ countdownState = TIMEDOUT => countdownState' = TIMEDOUT
          /\ countdownState # TIMEDOUT =>
                Latest(stateQueue', countdownState') # TIMEDOUT
          /\ timedOutCalls' = timedOutCalls]_vars

\* C3 witness: the widget was paused and then resumed by a second click,
\* after at least one tick
C3_Witness ==
    /\ lastOp = "toggle"
    /\ countdownState = RUNNING
    /\ ticks > 0

C5_DeltaDecomposition ==
    (lastOp = "calculate" /\ now < endTimestamp) =>
        /\ TotalSeconds(delta) * 1000 <= endTimestamp - now
        /\ endTimestamp - now < (TotalSeconds(delta) + 1) * 1000
        /\ delta.hours >= 0
        /\ delta.minutes \in 0..59
        /\ delta.seconds \in 0..59

\* C5 witness: a delta with hours and with minutes and seconds at their top
C5_Witness ==
    /\ lastOp = "calculate"
    /\ now < endTimestamp
    /\ delta.hours > 0
    /\ delta.minutes = 59
    /\ delta.seconds = 59

\* C6: calculateRemainingSeconds is -1 when target < now, and for
\* target > now it is floor((target - now) / 1000), non-negative and equal
\* to the total seconds of calculateTimeDifference(now, target).
C6_RemainingSecondsProbe ==
    lastOp = "calculate" =>
        /\ endTimestamp < now => remainingSeconds = -1
        /\ endTimestamp > now =>
              /\ remainingSeconds >= 0
              /\ remainingSeconds * 1000 <= endTimestamp - now
              /\ endTimestamp - now < (remainingSeconds + 1) * 1000
              /\ remainingSeconds = TotalSeconds(delta)

\* C6 witness: the probe was taken after the target had passed
C6_Witness ==
    /\ lastOp = "calculate"
    /\ endTimestamp < now
    /\ remainingSeconds = -1

PadTwo(n) ==
    LET str == NumToString(n)
    IN  IF Len(str) >= 2 THEN str ELSE "0" \o str

C10_FixedCadence ==
    mounted => now - lastTick <= Interval

\* C11: at most one interval timer of the widget is live at any time (each
\* is cleared before the next is registered), none is live after unmount,
\* and after unmount no tick runs, no state changes and the callback is not
\* invoked.
C11_TimerTiedToLifetime ==
    /\ [](/\ liveTimers <= 1
          /\ ~mounted => (liveTimers = 0 /\ ~timerLive))
    /\ [][~mounted =>
             UNCHANGED <<countdownState, remainingSeconds, stateQueue,
                         secondsQueue, timedOutCalls, ticks, lastTick>>]_vars

\* C11 witness: after some ticks the widget was removed, and the clock has
\* passed the instant at which its last timer would have fired
C11_Witness ==
    /\ ~mounted
    /\ ticks > 0
    /\ now >= timerDue
    /\ lastOp = "clock"

\* C12: a tick that runs while the state is PAUSED or TIMEDOUT leaves the
\* countdown state and the stored remaining seconds unchanged, schedules no
\* re-render and does not invoke the callback.
C12_IdleTickChangesNothing ==
    [][(lastOp' = "tick" /\ countdownState \in {PAUSED, TIMEDOUT}) =>
          UNCHANGED <<countdownState, remainingSeconds, stateQueue,
                      secondsQueue, effectPending, timedOutCalls>>]_vars

C14_NoStaleClosure ==
    [][/\ lastOp' = "tick" =>
             (timerState = countdownState /\ stateQueue = << >>)
       /\ lastOp' = "toggle" => stateQueue = << >>]_vars

C16_DeltaIgnoresPauseHistory ==
    LET left == endTimestamp - renderedAt
    IN  /\ left <= 0 => delta = ZeroDelta
        /\ left > 0 =>
              /\ TotalSeconds(delta) * 1000 <= left
              /\ left < (TotalSeconds(delta) + 1) * 1000
              /\ delta.hours >= 0
              /\ delta.minutes \in 0..59
              /\ delta.seconds \in 0..59

\* C16 witness: a click resumes the widget some time after the timer of the
\* paused render was registered, with the target still more than a second
\* ahead
C16_Witness ==
    /\ lastOp = "toggle"
    /\ countdownState = RUNNING
    /\ timerState = PAUSED
    /\ now > timerDue - Interval
    /\ renderedAt = now
    /\ endTimestamp >= now + Interval
    /\ TotalSeconds(delta) >= 1

====
